---- MODULE Spec2Model ----
(***************************************************************************)
(* Model of the HTTP entry point src/src/index.ts and of the access-log    *)
(* middleware src/src/config/morgan.ts.                                    *)
(*                                                                         *)
(* The start-up script is run statement by statement (StartupOrder); the   *)
(* registered layers are kept in `stack`, and every request is dispatched  *)
(* over that stack the way the Express router does it: layers are tried in *)
(* registration order, a layer of arity 4 is run only while an error is    *)
(* pending and every other layer only while none is.                       *)
(***************************************************************************)
EXTENDS Integers, Sequences, FiniteSets, TLC

VARIABLES
    pc,        \* index of the next statement of the start-up script
    procEnv,   \* process.env.PORT ("<unset>" when the key is absent)
    dotEnvFile,\* the PORT line of the .env file ("<unset>" when there is none)
    port,      \* const port (index.ts:12), "<unread>" before it is evaluated
    stack,     \* the layers registered on app, in registration order
    server,    \* "idle" | "binding" | "bound" | "listening" | "failed"
    boundPort, \* the port the listening socket is bound to (0: none)
    console,   \* lines written with console.log
    log,       \* calls made on the winston logger, in order
    reqs       \* the requests accepted so far, indexed by arrival

vars == <<pc, procEnv, dotEnvFile, port, stack, server, boundPort, console, log, reqs>>

----------------------------------------------------------------------------
(* Bounds *)

\* requests accepted in one run of SpecServe
MaxRequests == 2

\* requests accepted in one run of Spec
MaxProbes == 1

\* calls made on the logger in one run of SpecLogger
MaxLogCalls == 3

----------------------------------------------------------------------------
(* Process configuration: dotenv.config() and const port *)

Unset == "<unset>"
Unread == "<unread>"

\* values PORT takes in the process environment at launch
ProcEnvValues == {Unset, "", "8080"}

\* values PORT takes in the .env file (Unset: no such line, or no file)
DotEnvValues == {Unset, "5000"}

DefaultPort == 3000
DefaultStatus == 500

\* dotenv.config(): a key of the file is copied only when process.env does
\* not own that key; an empty string is a value like any other.
DotenvConfig(env, file) ==
    IF env = Unset THEN file ELSE env

\* JavaScript truthiness of process.env.PORT: undefined and "" are falsy
TruthyEnv(v) == v # Unset /\ v # ""

\* the decimal text of the numeric literal 3000
DefaultPortText == "3000"

\* mutant: the default is left out
PortExprMissingDefault(env) == env

\* process.env.PORT || 3000
PortExpr(env) ==
    IF TruthyEnv(env) THEN env ELSE DefaultPortText

\* net.Server.listen turns a decimal string into the port number
ToPortNumber(p) ==
    CASE p = "3000" -> DefaultPort
      [] p = "8080" -> 8080
      [] p = "5000" -> 5000
      [] OTHER -> 0

----------------------------------------------------------------------------
(* Errors, requests and responses *)

\* interface Error { message: string; status?: number }
\* status is the empty set when the field is absent, else {the number}
NoErr == [message |-> "", status |-> {}]

\* The errors a request's handling raises.  express.json() itself raises
\* errors with a 4xx status; the set ranges over the declared type of what
\* the error handler receives, which is what the handler is written against.
Errors ==
    { [message |-> "boom", status |-> {}],
      [message |-> "boom", status |-> {0}],
      [message |-> "boom", status |-> {418}],
      [message |-> "oops", status |-> {418}],
      [message |-> "boom", status |-> {204}] }

Methods == {"GET", "HEAD", "POST", "OPTIONS"}
Paths == {"/", "/x"}

NoRes == [status |-> 0, body |-> "<pending>"]

\* A request as it arrives.  fault is the error its body makes express.json()
\* raise (NoErr: the body, if any, parses); cond tells whether it carries the
\* conditional header If-None-Match: *.
NewRequest(m, p, f, c) ==
    [ method |-> m, path |-> p, fault |-> f, cond |-> c,
      idx |-> 1,            \* first layer of the stack not yet tried
      err |-> NoErr,        \* the error pending for this request
      trace |-> << >>,      \* the layers run for it, in order
      headers |-> {},       \* response headers set so far
      hooked |-> FALSE,     \* morgan is waiting for the response to finish
      res |-> NoRes,        \* the response sent
      sends |-> 0,          \* how many times a response was sent
      finished |-> FALSE ]  \* the response's finish event has fired

----------------------------------------------------------------------------
(* The layers and the router's dispatch *)

JsonLayer == [name |-> "json", kind |-> "use", method |-> "*", path |-> "/"]
CorsLayer == [name |-> "cors", kind |-> "use", method |-> "*", path |-> "/"]
HelmetLayer == [name |-> "helmet", kind |-> "use", method |-> "*", path |-> "/"]
MorganLayer == [name |-> "morgan", kind |-> "use", method |-> "*", path |-> "/"]
\* mutant: the route registered with app.post instead of app.get
RootRoutePost == [name |-> "route", kind |-> "route", method |-> "POST", path |-> "/"]
RootRoute == [name |-> "route",  kind |-> "route", method |-> "GET", path |-> "/"]
ErrorLayer == [name |-> "error",  kind |-> "error", method |-> "*",   path |-> "/"]

\* mutant: app.listen called before the pipeline is registered
StartupOrderListenFirst ==
    << "dotenv", "port", "listen", "use json", "use cors", "use helmet",
       "use morgan", "get root", "use error" >>

\* mutant: the security-header stage registered before the CORS stage
StartupOrderHelmetFirst ==
    << "dotenv", "port", "use json", "use helmet", "use cors", "use morgan",
       "get root", "use error", "listen" >>

\* mutant: the body parser registered after the access-log stage
StartupOrderJsonLate ==
    << "dotenv", "port", "use cors", "use helmet", "use morgan", "use json",
       "get root", "use error", "listen" >>

\* mutant: the port read before the .env file is loaded
StartupOrderPortFirst ==
    << "port", "dotenv", "use json", "use cors", "use helmet", "use morgan",
       "get root", "use error", "listen" >>

\* the statements of index.ts, in program order
StartupOrder ==
    << "dotenv", "port", "use json", "use cors", "use helmet", "use morgan",
       "get root", "use error", "listen" >>

\* mutant: a HEAD request is matched against HEAD routes only
LayerMatchesExactMethod(layer, req) ==
    IF layer.kind = "route"
    THEN req.path = layer.path /\ req.method = layer.method
    ELSE TRUE

\* app.use(fn) mounts at "/", which every path matches; app.get(path) matches
\* that path only, and a HEAD request is served by the GET handler when the
\* route has no HEAD handler of its own.
LayerMatches(layer, req) ==
    IF layer.kind = "route"
    THEN /\ req.path = layer.path
         /\ \/ req.method = layer.method
            \/ req.method = "HEAD" /\ layer.method = "GET"
    ELSE TRUE

\* mutant: the arity of the handler is not looked at
LayerAcceptsAnyArity(layer, req) ==
    LayerMatches(layer, req)

\* mutant: the pending error is kept for the whole app, not per request:
\* once an error has been logged no request is given to a non-error layer
LayerAcceptsSharedError(layer, req) ==
    /\ LayerMatches(layer, req)
    /\ (layer.kind = "error") <=>
          (req.err # NoErr \/ \E k \in DOMAIN log : log[k].level = "error")

\* a handler of arity 4 is an error handler: it runs only while an error is
\* pending, and no other handler runs while one is
LayerAccepts(layer, req) ==
    /\ LayerMatches(layer, req)
    /\ (layer.kind = "error") <=> (req.err # NoErr)

\* next(): the index of the first layer from req.idx on that takes the
\* request, 0 when the stack is exhausted
NextLayer(req) ==
    LET cand == { i \in req.idx..Len(stack) : LayerAccepts(stack[i], req) }
    IN  IF cand = {} THEN 0 ELSE CHOOSE i \in cand : \A j \in cand : i <= j

NextLayerName(req) ==
    IF NextLayer(req) = 0 THEN "final" ELSE stack[NextLayer(req)].name

----------------------------------------------------------------------------
(* The logger (winston) and the sinks *)

\* logger.info(message) and logger.error(message): one entry per call.  rid
\* names the request the call was made for (0: none); it is not part of the
\* logged text.
LogEntry(level, kind, rid, message, method, url, status) ==
    [ level |-> level, kind |-> kind, rid |-> rid, message |-> message,
      method |-> method, url |-> url, status |-> status ]

\* mutant: the handler logs the text it answers with, not err.message
LoggerErrorFixedText(l, rid, message) ==
    Append(l, LogEntry("error", "error", rid, "Something went wrong!", "", "", 0))

\* mutant: the handler logs the error twice
LoggerErrorTwice(l, rid, message) ==
    Append(Append(l, LogEntry("error", "error", rid, message, "", "", 0)),
           LogEntry("error", "error", rid, message, "", "", 0))

LoggerError(l, rid, message) ==
    Append(l, LogEntry("error", "error", rid, message, "", "", 0))

\* the characters String.prototype.trim() removes; a text is kept as the
\* sequence of its tokens, each white-space character a token of its own
Whitespace == {" ", "\t", "\n", "\r"}

RECURSIVE TrimStart(_)
TrimStart(s) ==
    IF s # << >> /\ Head(s) \in Whitespace THEN TrimStart(Tail(s)) ELSE s

RECURSIVE TrimEnd(_)
TrimEnd(s) ==
    IF s # << >> /\ s[Len(s)] \in Whitespace
    THEN TrimEnd(SubSeq(s, 1, Len(s) - 1))
    ELSE s

\* message.trim()
Trim(s) == TrimEnd(TrimStart(s))

\* the 'combined' format: :remote-addr - :remote-user [:date[clf]]
\* ":method :url HTTP/:http-version" :status :res[content-length]
\* ":referrer" ":user-agent"; a token without a value is printed as -
CombinedLine(req) ==
    << "<remote-addr>", " ", "-", " ", "-", " ", "[<date>]", " ",
       "\"", req.method, " ", req.path, " ", "HTTP/1.1", "\"", " ",
       ToString(req.res.status), " ", "-", " ", "\"-\"", " ", "\"-\"" >>

\* morgan writes each line to the stream with a line terminator after it
StreamLine(req) == Append(CombinedLine(req), "\n")

\* mutant: stream.write hands the line to logger.error
AccessLineToError(l, rid, req) ==
    Append(l, LogEntry("error", "access", rid, "", req.method, req.path,
                       req.res.status))

\* mutant: the line carries the status the response had when the stage was
\* entered, before any handler set it
AccessLineStaleStatus(l, rid, req) ==
    Append(l, LogEntry("info", "access", rid, "", req.method, req.path, 200))

\* mutant: stream.write hands the line to logger.info as it got it
AccessLineUntrimmed(l, rid, req) ==
    Append(l, LogEntry("info", "access", rid, StreamLine(req), req.method,
                       req.path, req.res.status))

\* morgan('combined', {stream}): the line carries the request line and the
\* status of the response; stream.write hands it, trimmed, to logger.info
AccessLine(l, rid, req) ==
    Append(l, LogEntry("info", "access", rid, Trim(StreamLine(req)), req.method,
                       req.path, req.res.status))

\* createLogger({ level: 'info', transports: [Console, File error.log at
\* level 'error', File combined.log] }), with winston's npm levels
LevelNames == {"error", "warn", "info", "http", "verbose", "debug", "silly"}

LevelPriority(level) ==
    CASE level = "error" -> 0
      [] level = "warn" -> 1
      [] level = "info" -> 2
      [] level = "http" -> 3
      [] level = "verbose" -> 4
      [] level = "debug" -> 5
      [] OTHER -> 6

LoggerLevel == "info"

Transports == {"console", "logs/error.log", "logs/combined.log"}

\* mutant: the error file is given no level of its own
TransportLevelAllInherit(t) == LoggerLevel

\* a transport without a level takes the logger's
TransportLevel(t) ==
    IF t = "logs/error.log" THEN "error" ELSE LoggerLevel

\* a message passes the logger when its priority is within the logger's
\* level, and is then written by each transport whose level it is within
Delivers(t, level) ==
    /\ LevelPriority(level) <= LevelPriority(LoggerLevel)
    /\ LevelPriority(level) <= LevelPriority(TransportLevel(t))

\* what transport t has written: the logged entries it takes, in order
Sink(t) ==
    LET Takes(e) == Delivers(t, e.level)
    IN  SelectSeq(log, Takes)

----------------------------------------------------------------------------
(* Sending a response *)

\* req.fresh: only GET and HEAD, only for a 2xx or 304 status, and the
\* request's validators match (If-None-Match: * matches any response)
Fresh(req, status) ==
    /\ req.method \in {"GET", "HEAD"}
    /\ (status >= 200 /\ status < 300) \/ status = 304
    /\ req.cond

\* res.status(status).send(body): a fresh request is answered 304; a 204 or
\* 304 response and the response to a HEAD request carry no body
Send(req, status, body) ==
    LET st == IF Fresh(req, status) THEN 304 ELSE status
        bd == IF st \in {204, 304} \/ req.method = "HEAD" THEN "" ELSE body
    IN  [status |-> st, body |-> bd]

\* mutant: err.status ?? 500, which keeps a status of 0
ErrStatusNullish(err) ==
    IF err.status = {} THEN DefaultStatus ELSE CHOOSE s \in err.status : TRUE

\* mutant: the status of the error is not looked at
ErrStatusAlwaysDefault(err) == DefaultStatus

\* err.status || 500
ErrStatus(err) ==
    IF err.status = {} \/ err.status = {0}
    THEN DefaultStatus
    ELSE CHOOSE s \in err.status : TRUE

----------------------------------------------------------------------------
(* Initial state: the process has been launched, nothing has run yet *)

Init ==
    /\ pc = 1
    /\ procEnv \in ProcEnvValues
    /\ dotEnvFile \in DotEnvValues
    /\ port = Unread
    /\ stack = << >>
    /\ server = "idle"
    /\ boundPort = 0
    /\ console = << >>
    /\ log = << >>
    /\ reqs = << >>

----------------------------------------------------------------------------
(* The start-up script, one action per statement *)

AtStatement(name) == pc <= Len(StartupOrder) /\ StartupOrder[pc] = name

\* dotenv.config();
LoadDotenv ==
    /\ AtStatement("dotenv")
    /\ procEnv' = DotenvConfig(procEnv, dotEnvFile)
    /\ pc' = pc + 1
    /\ UNCHANGED <<dotEnvFile, port, stack, server, boundPort, console, log, reqs>>

\* const port = process.env.PORT || 3000;
ReadPort ==
    /\ AtStatement("port")
    /\ port' = PortExpr(procEnv)
    /\ pc' = pc + 1
    /\ UNCHANGED <<procEnv, dotEnvFile, stack, server, boundPort, console, log, reqs>>

Register(name, layer) ==
    /\ AtStatement(name)
    /\ stack' = Append(stack, layer)
    /\ pc' = pc + 1
    /\ UNCHANGED <<procEnv, dotEnvFile, port, server, boundPort, console, log, reqs>>

\* app.use(express.json());
UseJson == Register("use json", JsonLayer)

\* app.use(cors());
UseCors == Register("use cors", CorsLayer)

\* app.use(helmet());
UseHelmet == Register("use helmet", HelmetLayer)

\* app.use(morganMiddleware);
UseMorgan == Register("use morgan", MorganLayer)

\* app.get('/', ...);
GetRoot == Register("get root", RootRoute)

\* app.use((err, req, res, next) => ...);
UseErrorHandler == Register("use error", ErrorLayer)

\* app.listen(port, callback): the bind is started, the script goes on
Listen ==
    /\ AtStatement("listen")
    /\ server = "idle"
    /\ server' = "binding"
    /\ pc' = pc + 1
    /\ UNCHANGED <<procEnv, dotEnvFile, port, stack, boundPort, console, log, reqs>>

\* the script has run to its end
ScriptDone == pc > Len(StartupOrder)

\* the socket is bound to the port
BindSucceeds ==
    /\ server = "binding"
    /\ ScriptDone
    /\ server' = "bound"
    /\ boundPort' = ToPortNumber(port)
    /\ UNCHANGED <<pc, procEnv, dotEnvFile, port, stack, console, log, reqs>>

\* the port is taken: the server emits 'error', which nothing listens for,
\* and the process ends
BindFails ==
    /\ server = "binding"
    /\ ScriptDone
    /\ server' = "failed"
    /\ UNCHANGED <<pc, procEnv, dotEnvFile, port, stack, boundPort, console, log, reqs>>

\* 'listening': () => console.log(`Server is running at http://localhost:${port}`)
StartupMessage(p) == [text |-> "Server is running at http://localhost:", port |-> p]

ListeningCallback ==
    /\ server = "bound"
    /\ server' = "listening"
    /\ console' = Append(console, StartupMessage(port))
    /\ UNCHANGED <<pc, procEnv, dotEnvFile, port, stack, boundPort, log, reqs>>

----------------------------------------------------------------------------
(* Request handling, one action per layer *)

StartupUnchanged == UNCHANGED <<pc, procEnv, dotEnvFile, port, stack, server, boundPort, console>>

\* the server hands a new request to app (at most limit of them in a run)
AcceptUpTo(limit) ==
    /\ server = "listening"
    /\ Len(reqs) < limit
    /\ \E m \in Methods, p \in Paths, f \in Errors \cup {NoErr}, c \in BOOLEAN :
          reqs' = Append(reqs, NewRequest(m, p, f, c))
    /\ UNCHANGED log
    /\ StartupUnchanged

Accept == AcceptUpTo(MaxRequests)

AcceptProbe == AcceptUpTo(MaxProbes)

\* mutant: a handler that has answered calls next() all the same
RunsAfterSend(r, name) ==
    /\ r \in DOMAIN reqs
    /\ NextLayerName(reqs[r]) = name

\* the layer that next() reaches for request r is the one called name
Runs(r, name) ==
    /\ r \in DOMAIN reqs
    /\ reqs[r].sends = 0
    /\ NextLayerName(reqs[r]) = name

\* the request record once the layer at index i has been entered
Entered(req, i) ==
    [req EXCEPT !.trace = Append(@, stack[i].name), !.idx = i + 1]

\* express.json(): next() when there is no body or it parses, next(err) when
\* reading or parsing it fails
JsonResult(req, i) ==
    [Entered(req, i) EXCEPT !.err = req.fault]

JsonStage(r) ==
    /\ Runs(r, "json")
    /\ reqs' = [reqs EXCEPT ![r] = JsonResult(reqs[r], NextLayer(reqs[r]))]
    /\ UNCHANGED log
    /\ StartupUnchanged

\* mutant: cors({ preflightContinue: true }), which hands the preflight on
CorsResultPreflightContinue(req, i) ==
    [Entered(req, i) EXCEPT !.headers = @ \cup {"Access-Control-Allow-Origin"}]

\* cors(): sets Access-Control-Allow-Origin: *; an OPTIONS request is taken
\* for a preflight and answered 204 with no body, every other one goes on
CorsResult(req, i) ==
    LET e == [Entered(req, i) EXCEPT !.headers = @ \cup {"Access-Control-Allow-Origin"}]
    IN  IF req.method = "OPTIONS"
        THEN [e EXCEPT !.res = [status |-> 204, body |-> ""], !.sends = @ + 1]
        ELSE e

CorsStage(r) ==
    /\ Runs(r, "cors")
    /\ reqs' = [reqs EXCEPT ![r] = CorsResult(reqs[r], NextLayer(reqs[r]))]
    /\ UNCHANGED log
    /\ StartupUnchanged

\* helmet(): sets the security headers and goes on
HelmetResult(req, i) ==
    [Entered(req, i) EXCEPT !.headers = @ \cup {"Content-Security-Policy"}]

HelmetStage(r) ==
    /\ Runs(r, "helmet")
    /\ reqs' = [reqs EXCEPT ![r] = HelmetResult(reqs[r], NextLayer(reqs[r]))]
    /\ UNCHANGED log
    /\ StartupUnchanged

\* mutant: the stage goes on without registering the line
MorganResultNoHook(req, i) ==
    Entered(req, i)

\* morgan('combined', ...): registers the line to be written when the
\* response has finished, and goes on
MorganResult(req, i) ==
    [Entered(req, i) EXCEPT !.hooked = TRUE]

MorganStage(r) ==
    /\ Runs(r, "morgan")
    /\ reqs' = [reqs EXCEPT ![r] = MorganResult(reqs[r], NextLayer(reqs[r]))]
    /\ UNCHANGED log
    /\ StartupUnchanged

\* (req, res) => { res.send('Hello World!'); }
RouteResult(req, i) ==
    [Entered(req, i) EXCEPT !.res = Send(req, 200, "Hello World!"), !.sends = @ + 1]

RouteHandler(r) ==
    /\ Runs(r, "route")
    /\ reqs' = [reqs EXCEPT ![r] = RouteResult(reqs[r], NextLayer(reqs[r]))]
    /\ UNCHANGED log
    /\ StartupUnchanged

\* mutant: the handler answers with the error's message
ErrorResultSendsMessage(req, i) ==
    [Entered(req, i) EXCEPT
        !.res = Send(req, ErrStatus(req.err), req.err.message),
        !.sends = @ + 1]

\* (err, req, res, next) => {
\*     logger.error(err.message);
\*     res.status(err.status || 500).send('Something went wrong!'); }
ErrorResult(req, i) ==
    [Entered(req, i) EXCEPT
        !.res = Send(req, ErrStatus(req.err), "Something went wrong!"),
        !.sends = @ + 1]

\* mutant: the handler ends the process after answering
ErrorHandlerExits(r) ==
    /\ Runs(r, "error")
    /\ log' = LoggerError(log, r, reqs[r].err.message)
    /\ reqs' = [reqs EXCEPT ![r] = ErrorResult(reqs[r], NextLayer(reqs[r]))]
    /\ server' = "failed"
    /\ UNCHANGED <<pc, procEnv, dotEnvFile, port, stack, boundPort, console>>

ErrorHandler(r) ==
    /\ Runs(r, "error")
    /\ log' = LoggerError(log, r, reqs[r].err.message)
    /\ reqs' = [reqs EXCEPT ![r] = ErrorResult(reqs[r], NextLayer(reqs[r]))]
    /\ StartupUnchanged

\* the stack is exhausted: the framework's final handler answers 404 when no
\* error is pending, and reports a pending error itself otherwise
FinalResult(req) ==
    LET e == [req EXCEPT !.trace = Append(@, "final"), !.idx = Len(stack) + 1]
        st == IF req.err = NoErr THEN 404
              ELSE IF \E s \in req.err.status : s >= 400 /\ s < 600
                   THEN CHOOSE s \in req.err.status : TRUE
                   ELSE 500
        bd == IF req.method = "HEAD" THEN ""
              ELSE IF req.err = NoErr THEN "Cannot <method> <path>"
              ELSE "<error page>"
    IN  [e EXCEPT !.res = [status |-> st, body |-> bd], !.sends = @ + 1]

\* mutant: the end of the stack answers nothing
FinalHandlerSilent(r) ==
    /\ Runs(r, "final")
    /\ reqs[r].trace = << >> \/ reqs[r].trace[Len(reqs[r].trace)] # "final"
    /\ reqs' = [reqs EXCEPT ![r] = [FinalResult(reqs[r]) EXCEPT
                                       !.res = NoRes, !.sends = 0]]
    /\ UNCHANGED log
    /\ StartupUnchanged

FinalHandler(r) ==
    /\ Runs(r, "final")
    /\ reqs' = [reqs EXCEPT ![r] = FinalResult(reqs[r])]
    /\ UNCHANGED log
    /\ StartupUnchanged

\* mutant: morgan with { immediate: true } writes the line on the request,
\* not on the response
FinishImmediate(r) ==
    /\ r \in DOMAIN reqs
    /\ reqs[r].hooked \/ reqs[r].sends > 0
    /\ ~reqs[r].finished
    /\ reqs' = [reqs EXCEPT ![r].finished = TRUE]
    /\ log' = IF reqs[r].hooked THEN AccessLine(log, r, reqs[r]) ELSE log
    /\ StartupUnchanged

\* the response has been written out: 'finish' fires, and morgan, if it was
\* entered for this request, writes the access-log line
Finish(r) ==
    /\ r \in DOMAIN reqs
    /\ reqs[r].sends > 0
    /\ ~reqs[r].finished
    /\ reqs' = [reqs EXCEPT ![r].finished = TRUE]
    /\ log' = IF reqs[r].hooked THEN AccessLine(log, r, reqs[r]) ELSE log
    /\ StartupUnchanged

----------------------------------------------------------------------------
(* The specification *)

Startup ==
    \/ LoadDotenv
    \/ ReadPort
    \/ UseJson
    \/ UseCors
    \/ UseHelmet
    \/ UseMorgan
    \/ GetRoot
    \/ UseErrorHandler
    \/ Listen
    \/ BindSucceeds
    \/ BindFails
    \/ ListeningCallback

Handle(r) ==
    \/ JsonStage(r)
    \/ CorsStage(r)
    \/ HelmetStage(r)
    \/ MorganStage(r)
    \/ RouteHandler(r)
    \/ ErrorHandler(r)
    \/ FinalHandler(r)
    \/ Finish(r)

\* The program launched with any configuration; the runs take few requests,
\* the claims checked here being about the start-up.
NextStartup ==
    \/ Startup
    \/ AcceptProbe
    \/ \E r \in DOMAIN reqs : Handle(r)

Spec == Init /\ [][NextStartup]_vars

\* The same runs with every request's handling going on: a stage that has
\* been handed a request finishes its step, and Node's event loop runs each
\* pending callback.
SpecFair == Spec /\ \A r \in 1..MaxProbes : WF_vars(Handle(r))

\* The program launched with PORT unset and no .env file: request handling
\* reads neither, so the claims about requests are checked here.
InitServe == Init /\ procEnv = Unset /\ dotEnvFile = Unset

Next ==
    \/ Startup
    \/ Accept
    \/ \E r \in DOMAIN reqs : Handle(r)

SpecServe == InitServe /\ [][Next]_vars

\* The logger on its own: logger.log(level, message) called with any level
\* and message.  The program itself only calls logger.info and logger.error.
LogMessages == {"boom", "GET / 200"}

LoggerLog ==
    /\ Len(log) < MaxLogCalls
    /\ \E level \in LevelNames, m \in LogMessages :
          log' = Append(log, LogEntry(level, "call", 0, m, "", "", 0))
    /\ UNCHANGED reqs
    /\ StartupUnchanged

NextLogger == LoggerLog

SpecLogger == InitServe /\ [][NextLogger]_vars

----------------------------------------------------------------------------
(* Helpers of the properties *)

Answered(r) == r \in DOMAIN reqs /\ reqs[r].sends > 0

\* the layers run for request r, as a set
Ran(r) == { reqs[r].trace[k] : k \in DOMAIN reqs[r].trace }

\* request r raised an error while it was handled
Errored(r) == r \in DOMAIN reqs /\ reqs[r].err # NoErr

\* the log entries of a given kind written for request r
EntriesOf(r, kind) == { k \in DOMAIN log : log[k].rid = r /\ log[k].kind = kind }

\* the response is one that carries no body on the wire
Bodiless(r) == reqs[r].method = "HEAD" \/ reqs[r].res.status \in {204, 304}

\* a GET / whose body express.json() accepts and that is not conditional
PlainGetRoot(r) ==
    /\ r \in DOMAIN reqs
    /\ reqs[r].method = "GET" /\ reqs[r].path = "/"
    /\ reqs[r].fault = NoErr /\ ~reqs[r].cond

HelloWorld == [status |-> 200, body |-> "Hello World!"]

----------------------------------------------------------------------------
(* C1 *)

\* C1 as stated: every answered request with method GET and path / has
\* status 200 and body Hello World!, whatever its headers and body.
C1_AsStated ==
    \A r \in DOMAIN reqs :
        (Answered(r) /\ reqs[r].method = "GET" /\ reqs[r].path = "/")
            => reqs[r].res = HelloWorld

\* C1 amended: every answered GET / whose body the JSON stage accepts and
\* that is not a conditional request is answered 200 Hello World!, whatever
\* requests were handled before it.
C1_GetRoot ==
    \A r \in DOMAIN reqs :
        (Answered(r) /\ PlainGetRoot(r)) => reqs[r].res = HelloWorld

\* a plain GET / has been answered after an earlier request was answered
C1_Witness ==
    \E r \in DOMAIN reqs :
        /\ r > 1 /\ reqs[r - 1].finished
        /\ Answered(r) /\ PlainGetRoot(r)
        /\ reqs[r].trace[Len(reqs[r].trace)] = "route"

----------------------------------------------------------------------------
(* C2 *)

\* the requests the error handler has answered
ByErrorHandler(r) == Answered(r) /\ "error" \in Ran(r)

----------------------------------------------------------------------------
(* C3 *)

\* the error-level entries written for r all carry r's error message
OneErrorEntry(r) ==
    /\ Cardinality(EntriesOf(r, "error")) = 1
    /\ \A k \in EntriesOf(r, "error") :
          log[k].level = "error" /\ log[k].message = reqs[r].err.message

\* C3 as stated: every answered request whose handling raised an error has
\* the body Something went wrong! and exactly one error-level log entry,
\* which carries the error's message.
C3_AsStated ==
    \A r \in DOMAIN reqs :
        (Answered(r) /\ Errored(r)) =>
            /\ reqs[r].res.body = "Something went wrong!"
            /\ OneErrorEntry(r)

\* C3 amended: every answered request whose handling raised an error has
\* exactly one error-level log entry, which carries the error's message, and
\* none before it is answered; its body is Something went wrong! unless the
\* response carries no body (a HEAD request, or status 204 or 304), and is
\* empty then.
C3_ErrorBodyAndLog ==
    \A r \in DOMAIN reqs :
        /\ (Answered(r) /\ Errored(r)) =>
              /\ reqs[r].res.body =
                    IF Bodiless(r) THEN "" ELSE "Something went wrong!"
              /\ OneErrorEntry(r)
        /\ ~Answered(r) => EntriesOf(r, "error") = {}

\* an errored request has been answered with the body and one with none
C3_Witness ==
    /\ \E r \in DOMAIN reqs : Answered(r) /\ Errored(r) /\ ~Bodiless(r)
                               /\ reqs[r].err.message = "boom"
    /\ \E r \in DOMAIN reqs : Answered(r) /\ Errored(r) /\ Bodiless(r)

----------------------------------------------------------------------------
(* C4 *)

\* C4 as stated: every request whose response has finished, whatever its
\* outcome, has exactly one access-log line.
C4_AsStated ==
    \A r \in DOMAIN reqs :
        reqs[r].finished => Cardinality(EntriesOf(r, "access")) = 1

\* C4 amended: a request has exactly one access-log line once its response
\* has finished if it reached the access-log stage, and none at all if an
\* earlier stage failed (JSON body parsing) or answered it (the CORS stage,
\* for an OPTIONS request); no request ever has two.
C4_OneLineIfLogged ==
    \A r \in DOMAIN reqs :
        Cardinality(EntriesOf(r, "access")) =
            IF reqs[r].finished /\ "morgan" \in Ran(r) THEN 1 ELSE 0

\* finished requests of each outcome: served by the route, unmatched,
\* answered by the CORS stage, failed in JSON body parsing
C4_Witness ==
    /\ \E r \in DOMAIN reqs :
          /\ reqs[r].finished /\ Ran(r) \cap {"route", "final"} # {}
          /\ Cardinality(EntriesOf(r, "access")) = 1
    /\ \E r \in DOMAIN reqs :
          /\ reqs[r].finished /\ "morgan" \notin Ran(r)
          /\ (reqs[r].method = "OPTIONS" \/ Errored(r))

----------------------------------------------------------------------------
(* C5 *)

NonErrorStages == {"json", "cors", "helmet", "morgan", "route"}

\* C5: once an error is pending for a request, no further non-error stage
\* and no route logic runs for it: the error handler is the next and last
\* layer it reaches, the only one that answers it, and every error-level log
\* entry is written by the error handler for the request it is answering.
C5_ErrorsReachHandler ==
    /\ \A r \in DOMAIN reqs :
          Errored(r) =>
              /\ reqs[r].trace \in {<<"json">>, <<"json", "error">>}
              /\ Answered(r) <=> reqs[r].trace = <<"json", "error">>
    /\ \A r \in DOMAIN reqs :
          "error" \in Ran(r) => Errored(r)
    /\ \A k \in DOMAIN log :
          log[k].level = "error" =>
              /\ log[k].rid \in DOMAIN reqs
              /\ reqs[log[k].rid].trace = <<"json", "error">>

\* an error raised by the first stage has been answered by the error handler
C5_Witness ==
    \E r \in DOMAIN reqs :
        /\ Errored(r) /\ Answered(r)
        /\ reqs[r].trace = <<"json", "error">>
        /\ reqs[r].method = "GET" /\ reqs[r].path = "/"

----------------------------------------------------------------------------
(* C6 *)

\* request r arrived after an errored request had been answered
AfterError(r) ==
    \E q \in DOMAIN reqs : q < r /\ Errored(q) /\ reqs[q].finished

\* C6 as stated: the server never leaves the listening state, and a GET /
\* that follows an errored request is answered 200 Hello World!.
C6_AsStated ==
    \A r \in DOMAIN reqs :
        (Answered(r) /\ AfterError(r) /\ reqs[r].method = "GET" /\ reqs[r].path = "/")
            => reqs[r].res = HelloWorld

\* C6 amended: no step moves the server out of the listening state, the
\* registered stack is never changed while requests are handled, and a GET /
\* whose body the JSON stage accepts and that is not conditional is answered
\* 200 Hello World! also when it follows an errored request.
C6_StillListening ==
    /\ [][server = "listening" => (server' = "listening" /\ stack' = stack)]_vars
    /\ [](\A r \in DOMAIN reqs :
            (Answered(r) /\ AfterError(r) /\ PlainGetRoot(r))
                => reqs[r].res = HelloWorld)

\* a plain GET / has been answered after an errored request finished
C6_Witness ==
    \E r \in DOMAIN reqs :
        /\ Answered(r) /\ AfterError(r) /\ PlainGetRoot(r)
        /\ server = "listening"

----------------------------------------------------------------------------
(* C7 *)

\* C7: once read, the port is PORT of the process configuration when that is
\* a non-empty value and 3000 when PORT is absent or the empty string; it is
\* read before the bind is started and never changes afterwards; and the
\* socket is bound to that port (PORT=8080 binds 8080, no PORT binds 3000).
C7_PortChoice ==
    /\ [](port # Unread =>
            port = IF procEnv = Unset \/ procEnv = "" THEN "3000" ELSE procEnv)
    /\ [](server # "idle" => port # Unread)
    /\ [](server \in {"bound", "listening"} =>
            boundPort = CASE procEnv = "8080" -> 8080
                          [] procEnv = "5000" -> 5000
                          [] OTHER -> 3000)
    /\ [][port # Unread => port' = port]_vars
    /\ [][boundPort # 0 => boundPort' = boundPort]_vars

\* the socket is bound for a run launched with PORT=8080 ...
C7_Witness ==
    server = "listening" /\ procEnv = "8080" /\ boundPort = 8080

\* ... and for runs launched with PORT absent and with PORT empty
C7_WitnessDefault ==
    server = "listening" /\ procEnv = "" /\ boundPort = 3000

----------------------------------------------------------------------------
(* C8 *)

FullStack == <<JsonLayer, CorsLayer, HelmetLayer, MorganLayer, RootRoute, ErrorLayer>>

IsPrefix(a, b) == Len(a) <= Len(b) /\ \A k \in DOMAIN a : a[k] = b[k]

----------------------------------------------------------------------------
(* C9 *)

\* the response a request receives when it is the only one handled
Alone(req) ==
    IF req.fault # NoErr
    THEN Send(req, ErrStatus(req.fault), "Something went wrong!")
    ELSE IF req.method = "OPTIONS"
    THEN [status |-> 204, body |-> ""]
    ELSE IF req.path = "/" /\ req.method \in {"GET", "HEAD"}
    THEN Send(req, 200, "Hello World!")
    ELSE [status |-> 404,
          body |-> IF req.method = "HEAD" THEN "" ELSE "Cannot <method> <path>"]

\* C9: every answered request has the status and body it receives when
\* handled alone, whatever other requests are in flight; a step changes the
\* record of at most one request, and of the state shared by the requests
\* it changes nothing but the log, which only grows.
C9_Isolation ==
    /\ [](\A r \in DOMAIN reqs : Answered(r) => reqs[r].res = Alone(reqs[r]))
    /\ [][ /\ Cardinality({ r \in DOMAIN reqs : reqs'[r] # reqs[r] }) <= 1
           /\ IsPrefix(log, log')
           /\ (\E r \in DOMAIN reqs : reqs'[r] # reqs[r]) => stack' = stack
         ]_vars

\* two requests are in flight at once, one answered while the other, which
\* raised an error, is still between stages
C9_Witness ==
    \E r, q \in DOMAIN reqs :
        /\ r # q
        /\ Answered(r) /\ reqs[r].trace # << >>
        /\ ~Answered(q) /\ Errored(q)
        /\ reqs[r].res = HelloWorld

----------------------------------------------------------------------------
(* C10 *)

\* C10: the bind is started only when the whole pipeline is registered, so
\* every request is accepted with the full stack in place; the start-up
\* message is on the console exactly when the bind has succeeded and its
\* callback has run: once then, never before and never after a failed bind.
C10_BindAfterRegistration ==
    /\ server # "idle" => stack = FullStack
    /\ reqs # << >> => stack = FullStack
    /\ Len(console) = IF server = "listening" THEN 1 ELSE 0
    /\ \A k \in DOMAIN console : console[k] = StartupMessage(port)

\* the bind has succeeded and the message is out
C10_Witness ==
    server = "listening" /\ Len(console) = 1 /\ reqs # << >>

\* the bind has failed and nothing was announced
C10_WitnessFailed ==
    server = "failed" /\ console = << >>

----------------------------------------------------------------------------
(* C11 *)

\* the log entries written for request r at a given level
AtLevel(r, level) == { k \in DOMAIN log : log[k].rid = r /\ log[k].level = level }

\* C11: every access-log line is one logger.info call and no access-log line
\* is at error level; every entry the error handler writes is at error level
\* and is the plain err.message of the request it answers, and none of them
\* is at info level; nothing else is logged and the console gets none of it.
C11_Channels ==
    /\ \A k \in DOMAIN log :
          /\ log[k].rid \in DOMAIN reqs
          /\ log[k].kind \in {"access", "error"}
          /\ log[k].kind = "access" => log[k].level = "info"
          /\ log[k].kind = "error" =>
                /\ log[k].level = "error"
                /\ log[k].message = reqs[log[k].rid].err.message
    /\ \A r \in DOMAIN reqs :
          /\ AtLevel(r, "info") = EntriesOf(r, "access")
          /\ AtLevel(r, "error") = EntriesOf(r, "error")
          /\ Cardinality(AtLevel(r, "info")) =
                IF reqs[r].hooked /\ reqs[r].finished THEN 1 ELSE 0
          /\ Cardinality(AtLevel(r, "error")) =
                IF "error" \in Ran(r) THEN 1 ELSE 0
    /\ \A k \in DOMAIN console : console[k] = StartupMessage(port)

\* the log holds an access-log line and an error handler's entry
C11_Witness ==
    /\ \E k \in DOMAIN log : log[k].kind = "access" /\ log[k].level = "info"
    /\ \E k \in DOMAIN log : log[k].kind = "error" /\ log[k].message = "oops"

----------------------------------------------------------------------------
(* C12 *)

----------------------------------------------------------------------------
(* C13 *)

\* C13 as stated: once the server is listening, the start-up message has
\* been handed to the logger's informational channel.
C13_AsStated ==
    server = "listening" =>
        \E k \in DOMAIN log : log[k].level = "info" /\ log[k].kind = "startup"

----------------------------------------------------------------------------
(* C14 *)

\* the entries logged at one of the given levels, in order
LoggedAt(levels) ==
    LET Among(e) == e.level \in levels
    IN  SelectSeq(log, Among)

\* C14: the console and logs/combined.log hold exactly the messages logged
\* at error, warn or info level, logs/error.log exactly those logged at error
\* level, each in the order logged; so an error-level message reaches all
\* three sinks, an info-level message the console and logs/combined.log but
\* not logs/error.log, and a message below info level none.
C14_Transports ==
    /\ Sink("console") = LoggedAt({"error", "warn", "info"})
    /\ Sink("logs/combined.log") = LoggedAt({"error", "warn", "info"})
    /\ Sink("logs/error.log") = LoggedAt({"error"})
    /\ \A k \in DOMAIN log, t \in Transports :
          /\ log[k].level = "error" => \E j \in DOMAIN Sink(t) : Sink(t)[j] = log[k]
          /\ LevelPriority(log[k].level) > LevelPriority("info") =>
                \A j \in DOMAIN Sink(t) : Sink(t)[j].level # log[k].level
    /\ \A j \in DOMAIN Sink("logs/error.log") :
          Sink("logs/error.log")[j].level # "info"

\* an error-level, an info-level and a debug-level message have been logged
C14_Witness ==
    /\ \E k \in DOMAIN log : log[k].level = "error"
    /\ \E k \in DOMAIN log : log[k].level = "info"
    /\ \E k \in DOMAIN log : log[k].level = "debug"
    /\ Len(Sink("console")) = 2 /\ Len(Sink("logs/error.log")) = 1

----------------------------------------------------------------------------
(* C15 *)

\* request r raised no error and has been answered
AnsweredNoError(r) == Answered(r) /\ reqs[r].fault = NoErr

NotFound(r) == reqs[r].res.status = 404 /\ "final" \in Ran(r)

\* C15 as stated: of the requests that raise no error, exactly those with
\* method GET and path / are answered by the Hello World! handler; every
\* other one gets the framework's not-found response, is answered by neither
\* the route handler nor the error handler, and writes no error-level entry.
C15_AsStated ==
    \A r \in DOMAIN reqs :
        AnsweredNoError(r) =>
            IF reqs[r].method = "GET" /\ reqs[r].path = "/"
            THEN "route" \in Ran(r)
            ELSE /\ Ran(r) \cap {"route", "error"} = {}
                 /\ NotFound(r)
                 /\ AtLevel(r, "error") = {}

\* C15 amended: of the requests that raise no error, those with method GET
\* or HEAD and path / are answered by the Hello World! handler (a HEAD
\* request gets the same status without the body); an OPTIONS request is
\* answered 204 by the CORS stage; every other one gets the framework's
\* not-found response.  None but the first kind reaches the route handler,
\* and none at all reaches the error handler or writes an error-level entry.
C15_RouteOnly ==
    \A r \in DOMAIN reqs :
        AnsweredNoError(r) =>
            /\ "error" \notin Ran(r)
            /\ AtLevel(r, "error") = {}
            /\ IF reqs[r].method = "OPTIONS"
               THEN /\ Ran(r) = {"json", "cors"}
                    /\ reqs[r].res = [status |-> 204, body |-> ""]
               ELSE IF reqs[r].path = "/" /\ reqs[r].method \in {"GET", "HEAD"}
               THEN /\ "route" \in Ran(r) /\ "final" \notin Ran(r)
                    /\ reqs[r].res.status = IF reqs[r].cond THEN 304 ELSE 200
                    /\ reqs[r].res.body =
                          IF reqs[r].method = "GET" /\ ~reqs[r].cond
                          THEN "Hello World!" ELSE ""
               ELSE /\ "route" \notin Ran(r)
                    /\ NotFound(r)

\* a HEAD / has been served by the route, and a POST / and a GET /x have
\* each got the not-found response
C15_Witness ==
    /\ \E r \in DOMAIN reqs :
          /\ AnsweredNoError(r) /\ reqs[r].method = "HEAD" /\ reqs[r].path = "/"
          /\ "route" \in Ran(r)
    /\ \E r \in DOMAIN reqs :
          /\ AnsweredNoError(r) /\ NotFound(r)
          /\ <<reqs[r].method, reqs[r].path>> \in {<<"POST", "/">>, <<"GET", "/x">>}

----------------------------------------------------------------------------
(* C16 *)

LaterStages == {"helmet", "morgan", "route", "error", "final"}

----------------------------------------------------------------------------
(* C17 *)

\* C17: every access-log line in the log belongs to a request whose
\* response has been sent and has finished; a request whose response has not
\* finished has no line, whether or not the access-log stage was entered.
C17_LineAfterResponse ==
    /\ \A k \in DOMAIN log :
          log[k].kind = "access" =>
              /\ reqs[log[k].rid].sends > 0
              /\ reqs[log[k].rid].finished
              /\ reqs[log[k].rid].res # NoRes
    /\ \A r \in DOMAIN reqs :
          ~reqs[r].finished => EntriesOf(r, "access") = {}

\* a request is past the access-log stage and not yet answered, with no
\* line, while another's line has been written
C17_Witness ==
    /\ \E r \in DOMAIN reqs :
          reqs[r].hooked /\ ~Answered(r) /\ EntriesOf(r, "access") = {}
    /\ \E r \in DOMAIN reqs :
          reqs[r].finished /\ EntriesOf(r, "access") # {}

----------------------------------------------------------------------------
(* C18 *)

\* C18: a request whose error the JSON body-parsing stage raised goes from
\* that stage straight to the error handler: the CORS, security-header and
\* access-log stages and the route handler are not run for it (it gets none
\* of their headers and no access-log line), and it is answered with the
\* error's status when that is an error status (400 and up, as the errors of
\* express.json() are) and with 500 when the error has no status field.
C18_JsonErrorStraightToHandler ==
    \A r \in DOMAIN reqs :
        reqs[r].fault # NoErr =>
            /\ IsPrefix(reqs[r].trace, <<"json", "error">>)
            /\ Ran(r) \cap {"cors", "helmet", "morgan", "route", "final"} = {}
            /\ reqs[r].headers = {}
            /\ ~reqs[r].hooked
            /\ EntriesOf(r, "access") = {}
            /\ Answered(r) <=> Len(reqs[r].trace) = 2
            /\ Answered(r) =>
                  /\ reqs[r].fault.status = {} => reqs[r].res.status = 500
                  /\ \A s \in reqs[r].fault.status :
                        s >= 400 => reqs[r].res.status = s

\* an error with a 4xx status and one with none, both raised by the JSON
\* stage, have been answered by the error handler
C18_Witness ==
    /\ \E r \in DOMAIN reqs :
          /\ reqs[r].fault.status = {418} /\ reqs[r].trace = <<"json", "error">>
          /\ reqs[r].res.status = 418 /\ reqs[r].finished
    /\ \E r \in DOMAIN reqs :
          /\ reqs[r].fault # NoErr /\ reqs[r].fault.status = {}
          /\ reqs[r].res.status = 500

----------------------------------------------------------------------------
(* C19 *)

\* JavaScript truthiness of err.status: absent (undefined, null) and 0 are
\* falsy
TruthyStatus(err) == err.status # {} /\ err.status # {0}

----------------------------------------------------------------------------
(* C20 *)

Answerers == {"cors", "route", "error", "final"}

\* C20: no request is ever answered twice.  A request has a response exactly
\* when it has been sent one; the layer that answered is the last one run for
\* the request, so the error handler and the route handler hand it to no
\* further layer, and no layer before it was the route handler, the error
\* handler or the final handler.
C20_AtMostOneResponse ==
    \A r \in DOMAIN reqs :
        LET t == reqs[r].trace
        IN  /\ reqs[r].sends \in {0, 1}
            /\ reqs[r].sends = 0 <=> reqs[r].res = NoRes
            /\ \A k \in DOMAIN t :
                  t[k] \in {"route", "error", "final"} => k = Len(t) /\ Answered(r)
            /\ Answered(r) => t # << >> /\ t[Len(t)] \in Answerers
            /\ reqs[r].finished => Answered(r)

\* the route handler has answered one request and the error handler another,
\* and both responses have finished
C20_Witness ==
    /\ \E r \in DOMAIN reqs :
          reqs[r].finished /\ reqs[r].sends = 1
              /\ reqs[r].trace[Len(reqs[r].trace)] = "route"
    /\ \E r \in DOMAIN reqs :
          reqs[r].finished /\ reqs[r].sends = 1
              /\ reqs[r].trace[Len(reqs[r].trace)] = "error"

----------------------------------------------------------------------------
(* C22 *)

\* the error-level entries of the log
ErrorLevelEntries == { k \in DOMAIN log : log[k].level = "error" }

\* the requests that have reached the error handler
ReachedErrorHandler == { r \in DOMAIN reqs : "error" \in Ran(r) }

\* C22: in every reachable state there are as many error-level log entries
\* as requests that have reached the error handler; a request handled without
\* error (GET / in particular) has no error-level entry and has not entered
\* the error handler.
C22_ErrorEntriesCount ==
    /\ Cardinality(ErrorLevelEntries) = Cardinality(ReachedErrorHandler)
    /\ \A r \in DOMAIN reqs :
          reqs[r].err = NoErr =>
             /\ "error" \notin Ran(r)
             /\ AtLevel(r, "error") = {}

\* one request has reached the error handler and a GET / handled without
\* error has been answered and logged beside it
C22_Witness ==
    /\ Cardinality(ReachedErrorHandler) = 1
    /\ Cardinality(ErrorLevelEntries) = 1
    /\ \E r \in DOMAIN reqs :
          /\ PlainGetRoot(r) /\ reqs[r].finished
          /\ reqs[r].res = HelloWorld
          /\ EntriesOf(r, "access") # {}

----------------------------------------------------------------------------
(* C23 *)

\* C23 is about a request whose error reaches the error handler after the
\* access-log stage has run.  No request of this program is one: the only
\* stage that raises an error is the body parser, which is registered before
\* the access-log stage, and an error skips that stage; the route handler
\* raises none.  So no request has both an error-level entry and an
\* access-log line, and the order of the two is never observed.
C23_NoErrorAfterAccessLog ==
    \A r \in DOMAIN reqs :
       /\ ~("morgan" \in Ran(r) /\ "error" \in Ran(r))
       /\ EntriesOf(r, "error") = {} \/ EntriesOf(r, "access") = {}

----------------------------------------------------------------------------
(* C24 *)


\* two requests that differ in nothing the error handler's response could
\* depend on but the message of their errors
SameButMessage(a, b) ==
    /\ a.method = b.method /\ a.path = b.path /\ a.cond = b.cond
    /\ a.err # NoErr /\ b.err # NoErr
    /\ a.err.status = b.err.status
    /\ a.err.message # b.err.message

\* the texts the client of request r receives
ClientTexts(r) == {reqs[r].res.body} \cup reqs[r].headers

\* C24 as stated: the two responses are identical, with the same status and
\* the body Something went wrong!, and the message is not in them.
C24_AsStated ==
    \A r, q \in DOMAIN reqs :
       ByErrorHandler(r) /\ ByErrorHandler(q) /\ SameButMessage(reqs[r], reqs[q]) =>
          /\ reqs[r].res = reqs[q].res
          /\ reqs[r].res.body = "Something went wrong!"
          /\ reqs[r].err.message \notin ClientTexts(r)

\* C24: two requests the error handler has answered whose errors have equal
\* status fields and different messages have identical responses: the same
\* status and the same body, which is Something went wrong! unless the
\* response is one that carries no body (HEAD, 204, 304), and then empty.  No
\* response of the error handler carries the error's message; the message is
\* the text of that request's error-level log entry.
C24_MessageNotInResponse ==
    /\ \A r, q \in DOMAIN reqs :
          ByErrorHandler(r) /\ ByErrorHandler(q) /\ SameButMessage(reqs[r], reqs[q]) =>
             /\ reqs[r].res = reqs[q].res
             /\ reqs[r].headers = reqs[q].headers
             /\ reqs[r].res.body = IF Bodiless(r) THEN "" ELSE "Something went wrong!"
    /\ \A r \in DOMAIN reqs :
          ByErrorHandler(r) =>
             /\ reqs[r].err.message \notin ClientTexts(r)
             /\ \A k \in EntriesOf(r, "error") : log[k].message = reqs[r].err.message

\* two errors with status 418 and different messages have both been answered
\* with 418 and the fixed body
C24_Witness ==
    \E r, q \in DOMAIN reqs :
       /\ ByErrorHandler(r) /\ ByErrorHandler(q)
       /\ SameButMessage(reqs[r], reqs[q])
       /\ reqs[r].res = [status |-> 418, body |-> "Something went wrong!"]
       /\ reqs[q].res = reqs[r].res
       /\ EntriesOf(r, "error") # {} /\ EntriesOf(q, "error") # {}

----------------------------------------------------------------------------
(* C25 *)

\* PORT of the process environment is one of the values of the launch, so
\* the value of the .env file is there only when dotenv.config() copied it
FromDotEnv == procEnv \notin ProcEnvValues /\ procEnv = dotEnvFile

\* C25: the .env file is loaded before the port is read: the port is read
\* from an environment that dotenv.config() has already completed.  A PORT
\* that only the .env file defines is copied into the environment and is the
\* port the socket is bound to; a PORT the process environment already has,
\* the empty string included, is never changed by the load.
C25_DotenvBeforePort ==
    /\ [][port' # port => /\ ~AtStatement("dotenv")
                          /\ procEnv = DotenvConfig(procEnv, dotEnvFile)
                          /\ port' = PortExpr(procEnv)]_vars
    /\ [][procEnv # Unset => procEnv' = procEnv]_vars
    /\ [][procEnv' # procEnv => procEnv' = dotEnvFile /\ port = Unread]_vars
    /\ [](port # Unread /\ procEnv = Unset => dotEnvFile = Unset)
    /\ [](FromDotEnv /\ port # Unread => port = dotEnvFile)
    /\ [](FromDotEnv /\ server \in {"bound", "listening"} =>
             boundPort = ToPortNumber(dotEnvFile))
    /\ [](procEnv = "8080" /\ server \in {"bound", "listening"} => boundPort = 8080)

\* launched without PORT and with PORT=5000 in the .env file, the server
\* listens on 5000
C25_Witness ==
    server = "listening" /\ FromDotEnv /\ dotEnvFile = "5000" /\ boundPort = 5000

\* launched with PORT=8080 and with PORT=5000 in the .env file, the server
\* listens on 8080
C25_WitnessNotOverridden ==
    server = "listening" /\ procEnv = "8080" /\ dotEnvFile = "5000" /\ boundPort = 8080

----------------------------------------------------------------------------
(* C26 *)

\* the tokens of a text, as a set
Tokens(s) == { s[k] : k \in DOMAIN s }

\* C26: the text of every access-log entry is the formatted line of its
\* request without the line terminator the stream was given it with: it
\* neither starts nor ends with white space and holds no line terminator,
\* and inside it is the line as formatted.  There is one logger.info call for
\* each line written to the stream: one for a request whose response has
\* finished after the access-log stage was entered, none for any other.
C26_TrimmedLine ==
    /\ \A k \in DOMAIN log :
          log[k].kind = "access" =>
             LET m == log[k].message
                 req == reqs[log[k].rid]
             IN  /\ log[k].level = "info"
                 /\ m # << >>
                 /\ Head(m) \notin Whitespace
                 /\ m[Len(m)] \notin Whitespace
                 /\ "\n" \notin Tokens(m)
                 /\ m = CombinedLine(req)
                 /\ Append(m, "\n") = StreamLine(req)
    /\ \A r \in DOMAIN reqs :
          Cardinality(EntriesOf(r, "access")) =
             IF reqs[r].hooked /\ reqs[r].finished THEN 1 ELSE 0

\* the line of a GET / answered 200 has been logged, without its terminator
C26_Witness ==
    \E k \in DOMAIN log :
       /\ log[k].kind = "access"
       /\ PlainGetRoot(log[k].rid)
       /\ Len(log[k].message) = Len(StreamLine(reqs[log[k].rid])) - 1
       /\ {"GET", "/", "200"} \subseteq Tokens(log[k].message)

----------------------------------------------------------------------------
(* C21 *)

\* the last layer run for request r
LastRun(r) == reqs[r].trace[Len(reqs[r].trace)]

\* C21: every accepted request is eventually answered, each stage finishing
\* its step: no request stays pending for ever.  The answer comes from the
\* route handler, from the CORS stage answering a preflight, from the
\* framework's final handler or from the error handler, and from no other
\* stage.
C21_EventuallyAnswered ==
    /\ \A r \in 1..MaxProbes : (r \in DOMAIN reqs) ~> Answered(r)
    /\ [](\A r \in DOMAIN reqs : Answered(r) => LastRun(r) \in Answerers)

\* a request has been answered by the error handler ...
C21_Witness ==
    \E r \in DOMAIN reqs : Answered(r) /\ LastRun(r) = "error"

\* ... and one by each of the other three
C21_WitnessRoute ==
    \E r \in DOMAIN reqs : Answered(r) /\ LastRun(r) = "route"

C21_WitnessPreflight ==
    \E r \in DOMAIN reqs : Answered(r) /\ LastRun(r) = "cors"

C21_WitnessNotFound ==
    \E r \in DOMAIN reqs : Answered(r) /\ LastRun(r) = "final"

====
